---- MODULE Spec2Model ----
(***************************************************************************)
(* A model of crawler/crawler.py: the DocumentCrawler walks a storage      *)
(* tree, unpacks archives recursively into scratch directories, turns      *)
(* every supported leaf file into a record, releases the scratch           *)
(* directories and exports the records.                                    *)
(*                                                                         *)
(* Text is a sequence of one-character strings or of longer tokens: a file *)
(* name is <<stem, extension>>, a path is <<directory, stem, extension>>.  *)
(* The storage is an ordered forest of files, listed in the order the walk *)
(* (os.walk at the top, namelist() inside an archive) meets them.          *)
(***************************************************************************)
EXTENDS Integers, Sequences, FiniteSets, TLC

\* The number of files in the storage tree, archive members included.
MaxNodes == 3

VARIABLES
    storage,             \* the files, in walk order: [ext, parent, bytes]
    rootExists,          \* self.storage_path.exists()
    SEVENZIP_AVAILABLE,  \* crawler.py:21-26
    RARFILE_AVAILABLE,   \* crawler.py:28-33
    pc,                  \* where run() is: idle, walking, crawled, done, raised
    walk,                \* the paths os.walk has still to yield
    stack,               \* the active _process_archive calls, innermost last
    documents,           \* self.documents
    temp_dirs,           \* self.temp_dirs
    disk,                \* the scratch directories that exist on disk
    returned,            \* what crawl() returned
    csv,                 \* the rows of the output file, <<"absent">> when it is not there
    log,                 \* the console output
    exc,                 \* the exception that escaped, "none" when none did
    call                 \* a function called on its own: its arguments, its results

vars == <<storage, rootExists, SEVENZIP_AVAILABLE, RARFILE_AVAILABLE, pc, walk,
          stack, documents, temp_dirs, disk, returned, csv, log, exc, call>>

----------------------------------------------------------------------------
(* Constants of crawler.py *)

SUPPORTED_EXTENSIONS ==
    [documents    |-> <<".docx", ".doc", ".pdf">>,
     spreadsheets |-> <<".xlsx", ".xls">>,
     archives     |-> <<".zip", ".7z", ".rar">>]

CSV_COLUMNS ==
    <<"id", "file_path", "file_name", "file_type", "file_size",
      "content", "archive_path", "created_date", "content_hash">>

Range(s) == {s[i] : i \in DOMAIN s}

----------------------------------------------------------------------------
(* The storage tree *)

\* The extensions the files of the model carry: one of each kind the code
\* tells apart (a document with its own reader, a PDF in upper case, a
\* spreadsheet, the mandatory archive format, an optional archive format)
\* and one the crawler does not support.  extract_rar is extract_7z with
\* another library, so ".7z" stands for both optional formats.
FileExts == {".docx", ".PDF", ".xlsx", ".zip", ".7z", ".txt"}

\* str.lower() on an extension.
Lower(ext) == IF ext = ".PDF" THEN ".pdf" ELSE ext

\* The raw bytes a file may hold.
ByteStrings == {<<"b">>}

\* The file stems: file i is named Stems[i] followed by its extension.
Stems == <<"f1", "f2", "f3", "f4", "f5", "f6", "f7", "f8">>

IsArchiveExt(ext) == Lower(ext) \in Range(SUPPORTED_EXTENSIONS.archives)

\* The archives that enclose file k of s, k included when it is one itself:
\* the places where the next file of the walk may lie.
RECURSIVE OpenChain(_, _)
OpenChain(s, k) ==
    IF k = 0 THEN {}
    ELSE (IF IsArchiveExt(s[k].ext) THEN {k} ELSE {}) \cup OpenChain(s, s[k].parent)

\* Every storage of n files, each file listed after its enclosing archive
\* and the members of an archive listed depth-first.
RECURSIVE Storages(_)
Storages(n) ==
    IF n = 0 THEN {<<>>}
    ELSE UNION {
        {Append(s, [ext |-> e, parent |-> p, bytes |-> b]) :
            e \in FileExts, p \in {0} \cup OpenChain(s, Len(s)), b \in ByteStrings}
        : s \in Storages(n - 1)}

AllStorages == UNION {Storages(n) : n \in 0..MaxNodes}

Nodes == 1..Len(storage)

Name(i) == <<Stems[i], storage[i].ext>>

\* The file a path names.
NodeOf(path) == CHOOSE i \in 1..Len(Stems) : Stems[i] = path[2]

\* The files directly inside archive a (a = 0: directly in the storage).
RECURSIVE MembersFrom(_, _)
MembersFrom(a, i) ==
    IF i > Len(storage) THEN <<>>
    ELSE (IF storage[i].parent = a THEN <<i>> ELSE <<>>) \o MembersFrom(a, i + 1)

Members(a) == MembersFrom(a, 1)

----------------------------------------------------------------------------
(* Paths: <<directory, stem, extension>> *)

join(dir, name) == <<dir>> \o name

basename(path) == SubSeq(path, 2, 3)

\* os.path.splitext(path)[1]
splitext(path) == path[3]

----------------------------------------------------------------------------
(* File metadata, crawler.py:47-70.  Each takes the outcome of the system  *)
(* call it makes: "ok", or the error the call raises.                      *)

get_file_size(path, stat) ==
    IF stat = "ok"
    THEN [exc |-> "none", value |-> <<Len(storage[NodeOf(path)].bytes)>>]
    ELSE [exc |-> stat, value |-> <<>>]

get_file_dates(path, stat) ==
    IF stat = "ok"
    THEN [exc |-> "none", value |-> <<"ctime", "mtime">>]
    ELSE [exc |-> stat, value |-> <<>>]

get_file_hash(path, open) ==
    IF open = "ok"
    THEN [exc |-> "none", value |-> <<"md5">> \o storage[NodeOf(path)].bytes]
    ELSE [exc |-> open, value |-> <<>>]

----------------------------------------------------------------------------
(* clean_text, crawler.py:73-78 *)

IsSpace(c) == c \in {" ", "\t", "\n", "\r", "\f"}

\* re.sub(r'\s+', ' ', text)
RECURSIVE CollapseSpace(_)
CollapseSpace(text) ==
    IF text = <<>> THEN <<>>
    ELSE IF IsSpace(Head(text))
         THEN IF Len(text) > 1 /\ IsSpace(text[2])
              THEN CollapseSpace(Tail(text))
              ELSE <<" ">> \o CollapseSpace(Tail(text))
         ELSE <<Head(text)>> \o CollapseSpace(Tail(text))

RECURSIVE LStrip(_)
LStrip(text) ==
    IF text # <<>> /\ IsSpace(Head(text)) THEN LStrip(Tail(text)) ELSE text

RECURSIVE RStrip(_)
RStrip(text) ==
    IF text # <<>> /\ IsSpace(text[Len(text)])
    THEN RStrip(SubSeq(text, 1, Len(text) - 1))
    ELSE text

\* str.strip()
Strip(text) == RStrip(LStrip(text))

\* str.replace('\x00', '')
RemoveNul(text) == SelectSeq(text, LAMBDA c : c # "NUL")

clean_text(text) ==
    IF text = <<>> THEN <<>>
    ELSE RemoveNul(Strip(CollapseSpace(text)))

\* sep.join(parts)
RECURSIVE Join(_, _)
Join(sep, parts) ==
    IF parts = <<>> THEN <<>>
    ELSE IF Len(parts) = 1 THEN parts[1]
    ELSE parts[1] \o sep \o Join(sep, Tail(parts))

----------------------------------------------------------------------------
(* The format readers, crawler.py:81-191.  A reader library is outside the *)
(* repository: `read' is what it does on the file, either                  *)
(* [ok |-> TRUE, parts |-> the lines the loops collect] or                 *)
(* [ok |-> FALSE, err |-> the message of the exception it raises].         *)

parse_docx_silent(read) ==
    IF read.ok THEN clean_text(Join(<<"\n">>, read.parts)) ELSE <<>>

parse_docx(read) ==
    IF read.ok THEN clean_text(Join(<<"\n">>, read.parts))
    ELSE <<"[Error parsing DOCX: ">> \o read.err \o <<"]">>

parse_xlsx(read) ==
    IF read.ok THEN clean_text(Join(<<"\n">>, read.parts))
    ELSE <<"[Error parsing XLSX: ">> \o read.err \o <<"]">>

parse_xls(read) ==
    IF read.ok THEN clean_text(Join(<<"\n">>, read.parts))
    ELSE <<"[Error parsing XLS: ">> \o read.err \o <<"]">>

parse_pdf_pypdf2(read) ==
    IF read.ok THEN clean_text(Join(<<"\n">>, read.parts)) ELSE <<>>

parse_pdf_pdfplumber(read) ==
    IF read.ok THEN clean_text(Join(<<"\n">>, read.parts)) ELSE <<>>

PDF_MIN_LEN == 50

NO_PDF_TEXT == <<"[No text could be extracted from PDF]">>

parse_pdf_backup_on_tie(read) ==
    LET text == parse_pdf_pdfplumber(read.plumber)
        backup == parse_pdf_pypdf2(read.pypdf2)
        kept == IF Len(text) < PDF_MIN_LEN /\ Len(backup) >= Len(text)
                THEN backup ELSE text
    IN  IF kept # <<>> THEN kept ELSE NO_PDF_TEXT

\* read.plumber and read.pypdf2 are what the two libraries do on the file.
parse_pdf(read) ==
    LET text == parse_pdf_pdfplumber(read.plumber)
        backup == parse_pdf_pypdf2(read.pypdf2)
        kept == IF Len(text) < PDF_MIN_LEN /\ Len(backup) > Len(text)
                THEN backup ELSE text
    IN  IF kept # <<>> THEN kept ELSE NO_PDF_TEXT

Unsupported(file_ext) == <<"[Unsupported file type: ", file_ext, "]">>

parse_document(file_ext, read) ==
    CASE file_ext \in {".docx", ".doc"} -> parse_docx(read.doc)
      [] file_ext = ".xlsx" -> parse_xlsx(read.doc)
      [] file_ext = ".xls" -> parse_xls(read.doc)
      [] file_ext = ".pdf" -> parse_pdf(read)
      [] OTHER -> Unsupported(file_ext)

\* The lines the readers print, crawler.py:96, 115, 134, 151, 167.
parse_errors(file_path, file_ext, read) ==
    CASE file_ext \in {".docx", ".doc"} ->
            IF read.doc.ok THEN <<>> ELSE <<<<"Error parsing DOCX">> \o file_path>>
      [] file_ext = ".xlsx" ->
            IF read.doc.ok THEN <<>> ELSE <<<<"Error parsing XLSX">> \o file_path>>
      [] file_ext = ".xls" ->
            IF read.doc.ok THEN <<>> ELSE <<<<"Error parsing XLS">> \o file_path>>
      [] file_ext = ".pdf" ->
            (IF read.plumber.ok THEN <<>>
             ELSE <<<<"Error parsing PDF with pdfplumber">> \o file_path>>)
            \o (IF Len(parse_pdf_pdfplumber(read.plumber)) < PDF_MIN_LEN
                    /\ ~read.pypdf2.ok
                THEN <<<<"Error parsing PDF with PyPDF2">> \o file_path>>
                ELSE <<>>)
      [] OTHER -> <<>>

\* What the readers may do on a file during a crawl.
PageMark == <<"[", "P", "a", "g", "e", " ", "1", "]">>

GoodRead == [ok |-> TRUE, parts |-> <<<<"a", " ">>, <<"b">>>>]

\* The message of the exception is the library's: here it spans two lines.
BadRead == [ok |-> FALSE, err |-> <<"e", "\n", "r">>]

GoodPdf == [ok |-> TRUE, parts |-> <<PageMark, <<"x", "\n">>>>]

Reads ==
    {[doc |-> GoodRead, plumber |-> GoodPdf, pypdf2 |-> GoodPdf],
     [doc |-> BadRead, plumber |-> BadRead, pypdf2 |-> BadRead]}

\* What the system calls on a file may do: os.stat (the size, the dates)
\* and open (the hash).  A dangling link fails the first, an unreadable
\* file the second; FileNotFoundError and PermissionError are OSErrors.
SysCalls ==
    {[stat |-> "ok", open |-> "ok"],
     [stat |-> "OSError", open |-> "ok"],
     [stat |-> "ok", open |-> "OSError"]}

----------------------------------------------------------------------------
(* DocumentCrawler._process_file, crawler.py:263-291.  The result is the   *)
(* exception raised ("none": returned) and the value returned: <<>> for    *)
(* None, <<record>> for a record.                                          *)

SupportedAndText ==
    SUPPORTED_EXTENSIONS.documents \o SUPPORTED_EXTENSIONS.spreadsheets \o <<".txt">>

\* crawler.py:268
Supported == SUPPORTED_EXTENSIONS.documents \o SUPPORTED_EXTENSIONS.spreadsheets

next_id_from_zero == Len(documents)

\* len(self.documents) + 1, crawler.py:282
next_id == Len(documents) + 1

_process_file(file_path, archive_path, sys, read) ==
    LET file_ext == Lower(splitext(file_path))
        file_name == basename(file_path)
        file_size == get_file_size(file_path, sys.stat)
        dates == get_file_dates(file_path, sys.stat)
        content_hash == get_file_hash(file_path, sys.open)
        content == parse_document(file_ext, read)
        file_type == IF file_ext \in Range(SUPPORTED_EXTENSIONS.documents)
                     THEN "document" ELSE "spreadsheet"
    IN  IF file_ext \notin Range(Supported)
        THEN [exc |-> "none", doc |-> <<>>, log |-> <<>>]
        ELSE IF file_size.exc # "none"
        THEN [exc |-> file_size.exc, doc |-> <<>>,
              log |-> <<<<"Processing">> \o file_name>>]
        ELSE IF dates.exc # "none"
        THEN [exc |-> dates.exc, doc |-> <<>>,
              log |-> <<<<"Processing">> \o file_name>>]
        ELSE IF content_hash.exc # "none"
        THEN [exc |-> content_hash.exc, doc |-> <<>>,
              log |-> <<<<"Processing">> \o file_name>>]
        ELSE [exc |-> "none",
              log |-> <<<<"Processing">> \o file_name>>
                      \o parse_errors(file_path, file_ext, read),
              doc |-> <<[id |-> next_id,
                         file_path |-> file_path,
                         file_name |-> file_name,
                         file_type |-> file_type,
                         file_size |-> file_size.value[1],
                         content |-> content,
                         archive_path |-> archive_path,
                         created_date |-> dates.value[1],
                         content_hash |-> content_hash.value]>>]

----------------------------------------------------------------------------
(* The archive readers, crawler.py:194-251.  `unpack' is what the archive  *)
(* library does on the file: "ok", or the error it raises.                 *)

\* The paths extractall() creates and the namelist() loop collects.
Extracted(archive_path, extract_dir) ==
    LET ms == Members(NodeOf(archive_path))
    IN  [k \in 1..Len(ms) |-> join(extract_dir, Name(ms[k]))]

extract_zip_uncaught(archive_path, extract_dir, unpack) ==
    IF unpack = "ok"
    THEN [exc |-> "none", files |-> Extracted(archive_path, extract_dir), log |-> <<>>]
    ELSE [exc |-> unpack, files |-> <<>>, log |-> <<>>]

extract_zip(archive_path, extract_dir, unpack) ==
    IF unpack = "ok"
    THEN [exc |-> "none", files |-> Extracted(archive_path, extract_dir), log |-> <<>>]
    ELSE [exc |-> "none", files |-> <<>>,
          log |-> <<<<"Error extracting ZIP">> \o basename(archive_path)>>]

extract_7z(archive_path, extract_dir, unpack) ==
    IF ~SEVENZIP_AVAILABLE
    THEN [exc |-> "none", files |-> <<>>, log |-> <<>>]
    ELSE IF unpack = "ok"
    THEN [exc |-> "none", files |-> Extracted(archive_path, extract_dir), log |-> <<>>]
    ELSE [exc |-> "none", files |-> <<>>,
          log |-> <<<<"Error extracting 7z">> \o basename(archive_path)>>]

extract_rar(archive_path, extract_dir, unpack) ==
    IF ~RARFILE_AVAILABLE
    THEN [exc |-> "none", files |-> <<>>, log |-> <<>>]
    ELSE IF unpack = "ok"
    THEN [exc |-> "none", files |-> Extracted(archive_path, extract_dir), log |-> <<>>]
    ELSE [exc |-> "none", files |-> <<>>,
          log |-> <<<<"Error extracting RAR">> \o basename(archive_path)>>]

extract_archive(archive_path, extract_dir, unpack) ==
    LET ext == Lower(splitext(archive_path))
    IN  CASE ext = ".zip" -> extract_zip(archive_path, extract_dir, unpack)
          [] ext = ".7z" -> extract_7z(archive_path, extract_dir, unpack)
          [] ext = ".rar" -> extract_rar(archive_path, extract_dir, unpack)
          [] OTHER -> [exc |-> "none", files |-> <<>>,
                       log |-> <<<<"Unsupported archive format", ext>>>>]

\* What the archive library may do on an archive.
Unpacks == {"ok", "BadArchive"}

----------------------------------------------------------------------------
(* Scratch directories *)

TempNames == <<"crawler_1", "crawler_2", "crawler_3", "crawler_4",
               "crawler_5", "crawler_6", "crawler_7", "crawler_8">>

\* tempfile.mkdtemp(prefix="crawler_"): a directory that did not exist.
mkdtemp ==
    TempNames[CHOOSE k \in DOMAIN TempNames :
                /\ TempNames[k] \notin disk
                /\ \A j \in 1..(k - 1) : TempNames[j] \in disk]

----------------------------------------------------------------------------
(* DocumentCrawler *)

\* Whether an optional archive library was imported, crawler.py:21-33: it
\* makes a difference only when the storage holds an archive of its format.
Availability(ext) ==
    IF \E i \in Nodes : storage[i].ext = ext THEN BOOLEAN ELSE {TRUE}

\* What the output file holds before the run: nothing, or the rows an
\* earlier run of the program wrote.
PriorOutputs == {<<"absent">>, <<CSV_COLUMNS, <<"stale">>>>}

\* __init__, crawler.py:257-261, before run() is called.
Init ==
    /\ storage \in AllStorages
    /\ rootExists \in BOOLEAN
    /\ rootExists = FALSE => storage = <<>>
    /\ SEVENZIP_AVAILABLE \in Availability(".7z")
    /\ RARFILE_AVAILABLE \in Availability(".rar")
    /\ pc = "idle"
    /\ walk = <<>>
    /\ stack = <<>>
    /\ documents = <<>>
    /\ temp_dirs = <<>>
    /\ disk = {}
    /\ returned = <<>>
    /\ csv \in PriorOutputs
    /\ log = <<>>
    /\ exc = "none"
    /\ call = <<>>

FullPathInnerOnly(parent_path, archive_name) == archive_name

\* crawler.py:297
FullPath(parent_path, archive_name) ==
    IF parent_path # <<>> THEN parent_path \o <<"/">> \o archive_name
    ELSE archive_name

\* An exception leaves crawl() and run(): no cleanup, no export.
Raise(e, lines) ==
    /\ pc' = "raised"
    /\ exc' = e
    /\ stack' = <<>>
    /\ log' = log \o lines
    /\ UNCHANGED <<documents, returned, csv>>

\* The call of _process_archive up to its loop, crawler.py:293-303.
EnterArchive(archive_path, parent_path, unpack, callers, lines) ==
    LET archive_name == basename(archive_path)
        full_path == FullPath(parent_path, archive_name)
        temp_dir == mkdtemp
        got == extract_archive(archive_path, temp_dir, unpack)
        said == lines \o <<<<"Extracting">> \o full_path>> \o got.log
    IN  /\ temp_dirs' = Append(temp_dirs, temp_dir)
        /\ disk' = disk \cup {temp_dir}
        /\ IF got.exc # "none"
           THEN Raise(got.exc, said)
           ELSE /\ stack' = Append(callers,
                                   [archive_path |-> archive_path,
                                    full_path |-> full_path,
                                    temp_dir |-> temp_dir,
                                    todo |-> got.files,
                                    results |-> <<>>])
                /\ log' = log \o said
                /\ UNCHANGED <<pc, exc, documents, returned, csv>>

exists_unchecked == TRUE

\* self.storage_path.exists(), crawler.py:322
storage_path_exists == rootExists

\* crawl() up to its loop, crawler.py:314-326.
CrawlStart ==
    /\ pc = "idle"
    /\ IF ~storage_path_exists
       THEN /\ pc' = "crawled"
            /\ returned' = <<>>
            /\ log' = Append(log, <<"Error: Storage path does not exist">>)
            /\ UNCHANGED walk
       ELSE /\ pc' = "walking"
            /\ walk' = [k \in 1..Len(Members(0)) |->
                           join("storage", Name(Members(0)[k]))]
            /\ log' = Append(log, <<"Starting crawler...">>)
            /\ UNCHANGED returned
    /\ UNCHANGED <<call, storage, rootExists, SEVENZIP_AVAILABLE, RARFILE_AVAILABLE,
                   stack, documents, temp_dirs, disk, csv, exc>>

\* One turn of the loop of crawl(), crawler.py:326-338, up to the return of
\* _process_file or to the loop of _process_archive.
WalkFile ==
    /\ pc = "walking"
    /\ stack = <<>>
    /\ walk # <<>>
    /\ LET file_path == Head(walk)
           ext == Lower(splitext(file_path))
           found == <<<<"Found">> \o basename(file_path)>>
       IN  /\ walk' = Tail(walk)
           /\ IF ext \in Range(SUPPORTED_EXTENSIONS.archives)
              THEN \E unpack \in Unpacks :
                      EnterArchive(file_path, <<>>, unpack, stack, found)
              ELSE \E sys \in SysCalls, read \in Reads :
                      LET r == _process_file(file_path, <<>>, sys, read)
                      IN  /\ IF r.exc # "none"
                             THEN Raise(r.exc, found \o r.log)
                             ELSE /\ documents' = documents \o r.doc
                                  /\ log' = log \o found \o r.log
                                  /\ UNCHANGED <<pc, exc, stack, returned, csv>>
                          /\ UNCHANGED <<temp_dirs, disk>>
    /\ UNCHANGED <<call, storage, rootExists, SEVENZIP_AVAILABLE, RARFILE_AVAILABLE>>

\* One turn of the loop of _process_archive, crawler.py:303-310.
MemberFile ==
    /\ pc = "walking"
    /\ stack # <<>>
    /\ LET n == Len(stack)
           top == stack[n]
       IN  /\ top.todo # <<>>
           /\ LET extracted == Head(top.todo)
                  ext == Lower(splitext(extracted))
                  callers == [stack EXCEPT ![n].todo = Tail(top.todo)]
              IN  IF ext \in Range(SUPPORTED_EXTENSIONS.archives)
                  THEN \E unpack \in Unpacks :
                          EnterArchive(extracted, top.full_path, unpack, callers, <<>>)
                  ELSE \E sys \in SysCalls, read \in Reads :
                          LET r == _process_file(extracted, top.full_path, sys, read)
                          IN  /\ IF r.exc # "none"
                                 THEN Raise(r.exc, r.log)
                                 ELSE /\ stack' = [callers EXCEPT
                                                     ![n].results = @ \o r.doc]
                                      /\ log' = log \o r.log
                                      /\ UNCHANGED <<pc, exc, documents, returned, csv>>
                              /\ UNCHANGED <<temp_dirs, disk>>
    /\ UNCHANGED <<call, storage, rootExists, SEVENZIP_AVAILABLE, RARFILE_AVAILABLE, walk>>

extend_forgotten(list, more) == list

extend_in_front(list, more) == more \o list

\* list.extend, crawler.py:306, 334
extend(list, more) == list \o more

\* The return of _process_archive, crawler.py:312, into the extend() of its
\* caller: crawler.py:306 in an archive, crawler.py:334 in crawl().
ReturnArchive ==
    /\ pc = "walking"
    /\ stack # <<>>
    /\ LET n == Len(stack)
           top == stack[n]
       IN  /\ top.todo = <<>>
           /\ IF n > 1
              THEN /\ stack' = [SubSeq(stack, 1, n - 1) EXCEPT
                                  ![n - 1].results = extend(@, top.results)]
                   /\ UNCHANGED documents
              ELSE /\ stack' = <<>>
                   /\ documents' = extend(documents, top.results)
    /\ UNCHANGED <<call, storage, rootExists, SEVENZIP_AVAILABLE, RARFILE_AVAILABLE,
                   pc, walk, temp_dirs, disk, returned, csv, log, exc>>

_cleanup_keeps_registry(stuck) ==
    /\ disk' = disk \ (Range(temp_dirs) \ stuck)
    /\ temp_dirs' = temp_dirs

_cleanup_keeps_dirs(stuck) ==
    /\ disk' = disk
    /\ temp_dirs' = <<>>

\* _cleanup, crawler.py:347-354: `stuck' are the directories rmtree fails
\* on; the failure is printed and the registry cleared all the same.
_cleanup(stuck) ==
    /\ disk' = disk \ (Range(temp_dirs) \ stuck)
    /\ temp_dirs' = <<>>

\* The end of crawl(), crawler.py:340-345.  The removal of at most one
\* scratch directory fails.
CrawlEnd ==
    /\ pc = "walking"
    /\ stack = <<>>
    /\ walk = <<>>
    /\ \E stuck \in {{}} \cup {{d} : d \in Range(temp_dirs)} :
          /\ _cleanup(stuck)
          /\ log' = log \o SelectSeq([k \in DOMAIN temp_dirs |->
                                        <<"Warning: Could not remove", temp_dirs[k]>>],
                                    LAMBDA line : line[2] \in stuck)
                        \o <<<<"Crawling complete!">>>>
    /\ returned' = documents
    /\ pc' = "crawled"
    /\ UNCHANGED <<call, storage, rootExists, SEVENZIP_AVAILABLE, RARFILE_AVAILABLE,
                   walk, stack, documents, csv, exc>>

\* One row of the output file, crawler.py:362-364.
Row(d) ==
    <<d.id, d.file_path, d.file_name, d.file_type, d.file_size,
      d.content, d.archive_path, d.created_date, d.content_hash>>

open_a(file) == IF file = <<"absent">> THEN <<>> ELSE file

\* open(self.output_csv, 'w'), crawler.py:361: what the file holds once opened.
open_w(file) == <<>>

\* export, crawler.py:356-367, called by run(), crawler.py:369-372.
Export ==
    /\ pc = "crawled"
    /\ csv' = open_w(csv) \o <<CSV_COLUMNS>>
                  \o [k \in 1..Len(documents) |-> Row(documents[k])]
    /\ log' = Append(log, <<"Exported">>)
    /\ pc' = "done"
    /\ UNCHANGED <<call, storage, rootExists, SEVENZIP_AVAILABLE, RARFILE_AVAILABLE,
                   walk, stack, documents, temp_dirs, disk, returned, exc>>

Next ==
    \/ CrawlStart
    \/ WalkFile
    \/ MemberFile
    \/ ReturnArchive
    \/ CrawlEnd
    \/ Export

Spec == Init /\ [][Next]_vars

----------------------------------------------------------------------------
(* crawl() called more than once on one DocumentCrawler *)

\* The number of calls of crawl() on one DocumentCrawler.
MaxCrawls == 2

\* The first console line of a call of crawl(), crawler.py:323, 328.
IsCrawlStart(line) ==
    line \in {<<"Starting crawler...">>, <<"Error: Storage path does not exist">>}

Calls == Len(SelectSeq(log, IsCrawlStart))

\* The caller calls crawl() again, crawler.py:314: __init__ does not run
\* again, self.documents and self.temp_dirs are as the last call left them.
CrawlAgain ==
    /\ pc = "crawled"
    /\ Calls < MaxCrawls
    /\ pc' = "idle"
    /\ UNCHANGED <<call, storage, rootExists, SEVENZIP_AVAILABLE, RARFILE_AVAILABLE,
                   walk, stack, documents, temp_dirs, disk, returned, csv, log, exc>>

NextAgain ==
    \/ CrawlStart
    \/ WalkFile
    \/ MemberFile
    \/ ReturnArchive
    \/ CrawlEnd
    \/ Export
    \/ CrawlAgain

SpecAgain == Init /\ [][NextAgain]_vars

----------------------------------------------------------------------------
(* clean_text and parse_pdf called on their own *)

\* No crawl is under way: the fields of a DocumentCrawler just made.
NotCrawling ==
    /\ storage = <<>>
    /\ rootExists = FALSE
    /\ SEVENZIP_AVAILABLE = TRUE
    /\ RARFILE_AVAILABLE = TRUE
    /\ walk = <<>>
    /\ stack = <<>>
    /\ documents = <<>>
    /\ temp_dirs = <<>>
    /\ disk = {}
    /\ returned = <<>>
    /\ csv = <<"absent">>
    /\ log = <<>>
    /\ exc = "none"

\* The length of the texts clean_text is called on.
MaxText == 3

\* The characters of a text: a letter, white space, the NUL character.
TextChars == {"a", " ", "\n", "NUL"}

Texts == UNION {[1..n -> TextChars] : n \in 0..MaxText}

\* `call' is the text, then what clean_text makes of it, then what
\* clean_text makes of that.
InitClean ==
    /\ NotCrawling
    /\ pc = "clean_text"
    /\ \E text \in Texts : call = <<text>>

CallCleanText ==
    /\ pc = "clean_text"
    /\ Len(call) < 3
    /\ call' = Append(call, clean_text(call[Len(call)]))
    /\ UNCHANGED <<storage, rootExists, SEVENZIP_AVAILABLE, RARFILE_AVAILABLE, pc,
                   walk, stack, documents, temp_dirs, disk, returned, csv, log, exc>>

SpecClean == InitClean /\ [][CallCleanText]_vars

\* How far from the threshold, and from the empty text, the lengths of the
\* texts of a PDF are taken.
PdfSlack == 2

\* The length of the page text that makes a reader's text PDF_MIN_LEN long:
\* the page mark and the separator go before it.
PdfEdge == PDF_MIN_LEN - Len(PageMark) - 1

\* What a PDF library may do on a file: fail, find no text, or find one page
\* of text made of c.
PdfReads(c) ==
    {[ok |-> FALSE, err |-> <<"e">>], [ok |-> TRUE, parts |-> <<>>]}
    \cup {[ok |-> TRUE, parts |-> <<PageMark, [k \in 1..n |-> c]>>] :
             n \in (1..PdfSlack) \cup ((PdfEdge - PdfSlack)..(PdfEdge + PdfSlack))}

\* `call' is what the two libraries do on the file and, in `result', the
\* text parse_pdf returned: <<>> before it did.
InitPdf ==
    /\ NotCrawling
    /\ pc = "parse_pdf"
    /\ \E plumber \in PdfReads("x"), pypdf2 \in PdfReads("y") :
          call = [read |-> [plumber |-> plumber, pypdf2 |-> pypdf2], result |-> <<>>]

CallParsePdf ==
    /\ pc = "parse_pdf"
    /\ call.result = <<>>
    /\ call' = [call EXCEPT !.result = <<parse_pdf(call.read)>>]
    /\ UNCHANGED <<storage, rootExists, SEVENZIP_AVAILABLE, RARFILE_AVAILABLE, pc,
                   walk, stack, documents, temp_dirs, disk, returned, csv, log, exc>>

SpecPdf == InitPdf /\ [][CallParsePdf]_vars

----------------------------------------------------------------------------
(* What the properties speak of *)

\* The records produced so far: those of the session, then those the active
\* _process_archive calls hold, outermost call first.
RECURSIVE Held(_)
Held(k) == IF k = 0 THEN <<>> ELSE Held(k - 1) \o stack[k].results

Produced == documents \o Held(Len(stack))

\* crawl() has returned after a completed walk.
Crawled == rootExists /\ pc \in {"crawled", "done"}

\* The names of the archives that enclose file i, outermost first.
RECURSIVE Enclosing(_)
Enclosing(i) ==
    IF storage[i].parent = 0 THEN <<>>
    ELSE Append(Enclosing(storage[i].parent), Name(storage[i].parent))

\* The files of a sequence of records, in its order.
FilesOf(records) == [k \in DOMAIN records |-> NodeOf(records[k].file_path)]

\* The archives that enclose file i.
RECURSIVE Ancestors(_)
Ancestors(i) ==
    IF storage[i].parent = 0 THEN {}
    ELSE {storage[i].parent} \cup Ancestors(storage[i].parent)

\* File i is a supported leaf file: a document or a spreadsheet.
IsSupportedLeaf(i) ==
    Lower(storage[i].ext) \in {".docx", ".doc", ".pdf", ".xlsx", ".xls"}

\* The console says that extracting archive a failed, or a's format is an
\* optional one whose library is not available.
ExtractionFailed(a) ==
    \/ \E k \in DOMAIN log :
          /\ log[k][1] \in {"Error extracting ZIP", "Error extracting 7z",
                            "Error extracting RAR"}
          /\ SubSeq(log[k], 2, 3) = Name(a)
    \/ Lower(storage[a].ext) = ".7z" /\ ~SEVENZIP_AVAILABLE
    \/ Lower(storage[a].ext) = ".rar" /\ ~RARFILE_AVAILABLE

\* The supported leaf files inside archive a at any depth, in walk order.
LeavesUnder(a) ==
    SelectSeq([i \in Nodes |-> i],
              LAMBDA i : IsSupportedLeaf(i) /\ a \in Ancestors(i))

\* Those of them that lie behind no failed extraction, a's own included.
ReachableUnder(a) ==
    SelectSeq(LeavesUnder(a),
              LAMBDA i : \A b \in Ancestors(i) :
                            (b = a \/ a \in Ancestors(b)) => ~ExtractionFailed(b))

\* The supported leaf files of the storage that lie behind no failed
\* extraction, in walk order.
ReachableLeaves ==
    SelectSeq([i \in Nodes |-> i],
              LAMBDA i : /\ IsSupportedLeaf(i)
                         /\ \A b \in Ancestors(i) : ~ExtractionFailed(b))

\* The step has printed lines, the last of them about a reader that failed:
\* for a PDF the second reader, after the first had failed as well.
ReaderFailed ==
    /\ Len(log') > Len(log)
    /\ LET last == log'[Len(log')]
       IN  \/ last[1] \in {"Error parsing DOCX", "Error parsing XLSX",
                           "Error parsing XLS"}
           \/ /\ last[1] = "Error parsing PDF with PyPDF2"
              /\ Len(log') > Len(log) + 1
              /\ log'[Len(log') - 1] =
                    <<"Error parsing PDF with pdfplumber">> \o Tail(last)

\* The path the last line of the console is about.
LastPath(lines) == Tail(lines[Len(lines)])

\* The scratch directories the console says could not be removed.
Stuck == {log[k][2] : k \in {j \in DOMAIN log : log[j][1] = "Warning: Could not remove"}}

\* The number of _process_archive calls so far.
Extractions == Cardinality({k \in DOMAIN log : log[k][1] = "Extracting"})

\* Sequence s is the beginning of sequence t.
IsPrefix(s, t) == Len(s) <= Len(t) /\ SubSeq(t, 1, Len(s)) = s

\* The files that are still to be visited: those waiting in a loop and all
\* they enclose.
Waiting ==
    {i \in Nodes :
        \E j \in {i} \cup Ancestors(i) :
            \/ \E k \in DOMAIN walk : NodeOf(walk[k]) = j
            \/ \E f \in DOMAIN stack : \E k \in DOMAIN stack[f].todo :
                  NodeOf(stack[f].todo[k]) = j}

\* The steps run() has left at most.
Measure ==
    CASE pc = "idle" -> 2 * Len(storage) + 3
      [] pc = "walking" -> 2 * Cardinality(Waiting) + Len(stack) + 2
      [] pc = "crawled" -> 1
      [] OTHER -> 0

\* The innermost _process_archive call is at its return statement.
AtReturn == pc = "walking" /\ stack # <<>> /\ stack[Len(stack)].todo = <<>>

----------------------------------------------------------------------------
\* C1: the record at position i of the sequence crawl() returns has id i:
\* the ids start at 1 and rise by one, without gaps or repeats.
IdsAreSequential ==
    pc \in {"crawled", "done"} =>
        \A i \in DOMAIN returned : returned[i].id = i

\* C2: the archive_path of a record is empty exactly when its file lies
\* directly in the storage; otherwise it is the names of all the archives
\* that enclose the file, outermost first, joined by "/".
ArchivePathIsProvenance ==
    \A k \in DOMAIN Produced :
        LET d == Produced[k]
            i == NodeOf(d.file_path)
        IN  /\ d.archive_path = Join(<<"/">>, Enclosing(i))
            /\ d.archive_path = <<>> <=> storage[i].parent = 0
            /\ d.archive_path = <<>> <=> d.file_path[1] = "storage"

\* A file inside f2.zip inside f1.zip has made a record, beside a record of
\* a file found by the walk itself.
NestedProvenanceRecorded ==
    /\ pc = "done"
    /\ \E k \in DOMAIN documents :
          documents[k].archive_path = <<"f1", ".zip", "/", "f2", ".zip">>

\* C3 as stated: when _process_archive returns, its records are one for
\* each supported leaf file the archive holds at any depth.
ArchiveYieldsEveryLeaf ==
    AtReturn =>
        LET top == stack[Len(stack)]
        IN  FilesOf(top.results) = LeavesUnder(NodeOf(top.archive_path))

\* C3, amended: every step of the run lowers the number of steps left, so
\* _process_archive ends; and when it returns, its records are one for each
\* supported leaf file that it holds at any depth behind archives that were
\* all extracted, its own extraction included.
ArchiveYieldsEveryExtractedLeaf ==
    /\ [](AtReturn =>
            LET top == stack[Len(stack)]
            IN  FilesOf(top.results) = ReachableUnder(NodeOf(top.archive_path)))
    /\ [][Measure' < Measure]_vars

\* f1.zip is about to return the record of a file of the archive f2 in it.
NestedArchiveReturned ==
    /\ AtReturn
    /\ Len(stack) = 1
    /\ LET top == stack[1]
       IN  /\ top.results # <<>>
           /\ top.results[1].archive_path = <<"f1", ".zip", "/", "f2", ".7z">>

\* C4: a file whose extension is neither a document's, a spreadsheet's nor
\* an archive's makes no record and raises nothing, wherever it lies: every
\* record is of a supported file, none carries the placeholder of
\* parse_document, and an exception is only ever raised while a supported
\* file is processed.
UnsupportedFilesLeaveNoTrace ==
    /\ \A k \in DOMAIN Produced :
          /\ IsSupportedLeaf(NodeOf(Produced[k].file_path))
          /\ Produced[k].content # <<>> =>
                Produced[k].content[1] # "[Unsupported file type: "
    /\ exc # "none" =>
          LET last == log[Len(log)]
          IN  last[1] = "Processing" /\ Lower(last[3]) \in Range(Supported)

\* The run is over; it met the unsupported file f1 in the storage and the
\* unsupported file f3 in the extracted archive f2.
UnsupportedFilesVisited ==
    /\ pc = "done"
    /\ Len(storage) = 3
    /\ storage[1].ext = ".txt" /\ storage[1].parent = 0
    /\ storage[3].ext = ".txt" /\ storage[3].parent = 2
    /\ ~ExtractionFailed(2)
    /\ \E k \in DOMAIN log : log[k] = <<"Extracting", "f2", storage[2].ext>>

\* C5: when the storage root does not exist, crawl() returns the empty
\* sequence without raising, walks nothing and makes no scratch directory.
MissingRootYieldsNothing ==
    ~rootExists =>
        /\ pc \in {"idle", "crawled", "done"}
        /\ returned = <<>>
        /\ exc = "none"
        /\ walk = <<>> /\ stack = <<>>
        /\ temp_dirs = <<>> /\ disk = {}
        /\ \A k \in DOMAIN log :
              log[k][1] \notin {"Starting crawler...", "Found", "Extracting",
                                "Processing", "Crawling complete!"}

\* crawl() has returned on a missing storage root.
MissingRootCrawled ==
    /\ ~rootExists
    /\ pc = "crawled"
    /\ log = <<<<"Error: Storage path does not exist">>>>

\* C6: an archive whose extraction fails, or whose optional format is not
\* available, gives no record of anything in it and raises nothing (an
\* exception only ever comes from processing a leaf file), and a completed
\* walk has made the record of every supported leaf file that lies behind
\* no such archive, before it and after it.
ExtractionFailureIsContained ==
    /\ exc # "none" => log[Len(log)][1] = "Processing"
    /\ \A k \in DOMAIN Produced :
          \A a \in Ancestors(NodeOf(Produced[k].file_path)) : ~ExtractionFailed(a)
    /\ Crawled => FilesOf(documents) = ReachableLeaves

\* The run is over: extracting f2 failed, and the files f1 before it and f3
\* after it have their records.
FailedArchiveBetweenSiblings ==
    /\ pc = "done"
    /\ Len(storage) = 3
    /\ \A i \in 1..3 : storage[i].parent = 0
    /\ \E k \in DOMAIN log : log[k] = <<"Error extracting ZIP", "f2", ".zip">>
    /\ FilesOf(documents) = <<1, 3>>

\* C7: a step in which the reader of a supported leaf file fails raises
\* nothing, leaves the walk going and adds the record of that file, with
\* the next id, the file's size and hash, and a bracketed placeholder as
\* content: for a PDF "[No text could be extracted from PDF]".
ReaderFailureStillRecorded ==
    [][ReaderFailed =>
              /\ exc' = "none" /\ pc' = "walking"
              /\ Len(Produced') = Len(Produced) + 1
              /\ IsPrefix(Produced, Produced')
              /\ LET d == Produced'[Len(Produced')]
                     path == LastPath(log')
                     i == NodeOf(path)
                 IN  /\ d.file_path = path
                     /\ d.id = Len(documents) + 1
                     /\ d.file_size = Len(storage[i].bytes)
                     /\ d.content_hash = <<"md5">> \o storage[i].bytes
                     /\ IF Lower(storage[i].ext) = ".pdf"
                        THEN d.content = <<"[No text could be extracted from PDF]">>
                        ELSE /\ d.content # <<>>
                             /\ d.content[1] \in {"[Error parsing DOCX: ",
                                                  "[Error parsing XLSX: ",
                                                  "[Error parsing XLS: "}
                             /\ d.content[Len(d.content)] = "]"]_vars

\* The run is over: the readers failed on the PDF f1 and on the document
\* f2, both have their records, and so has the later file f3.
FailedReadsRecorded ==
    /\ pc = "done"
    /\ Len(documents) = 3
    /\ documents[1].content = <<"[No text could be extracted from PDF]">>
    /\ documents[2].content = <<"[Error parsing DOCX: ", "e", "\n", "r", "]">>
    /\ documents[3].content = <<"a", " ", "b">>

\* C8: on an existing storage tree nothing makes crawl() raise: whatever
\* fails while a file is processed, the run goes on to its end.
NothingAbortsTheRun ==
    rootExists => exc = "none" /\ pc # "raised"

\* C9 as stated: while the walk goes on every scratch directory made so far
\* is registered and exists; when crawl() has returned after a completed
\* walk, the registry is empty and no scratch directory exists any more.
ScratchAllReleasedAtEnd ==
    /\ pc = "walking" =>
          /\ Range(temp_dirs) = disk
          /\ Len(temp_dirs) = Extractions
          /\ Cardinality(disk) = Extractions
    /\ Crawled => temp_dirs = <<>> /\ disk = {}

\* C9, amended: while the walk goes on every scratch directory made so far
\* is registered and exists; when crawl() has returned after a completed
\* walk, the registry is empty and the scratch directories that still exist
\* are those whose removal failed and was reported as a warning.
ScratchReleasedAtEndUnlessStuck ==
    /\ pc = "walking" =>
          /\ Range(temp_dirs) = disk
          /\ Len(temp_dirs) = Extractions
          /\ Cardinality(disk) = Extractions
    /\ Crawled => temp_dirs = <<>> /\ disk = Stuck /\ Cardinality(Stuck) <= Extractions

\* crawl() has returned after two archives had their scratch directories
\* side by side: one directory is gone, the other could not be removed.
TwoScratchDirsDrained ==
    /\ pc = "crawled"
    /\ Extractions = 2
    /\ disk = {"crawler_2"}
    /\ temp_dirs = <<>>

----------------------------------------------------------------------------
\* The console lines of the last call of crawl().
LastCall ==
    LET starts == {k \in DOMAIN log : IsCrawlStart(log[k])}
    IN  IF starts = {} THEN <<>>
        ELSE SubSeq(log, CHOOSE k \in starts : \A j \in starts : j <= k, Len(log))

\* The files the last call of crawl() made records of.
Discovered ==
    LET lines == SelectSeq(LastCall, LAMBDA line : Head(line) = "Processing")
    IN  [k \in DOMAIN lines |-> Tail(lines[k])]

\* C11: the records a call of crawl() returns are exactly those the call
\* discovered, one for each file it processed and in that order, also when
\* crawl() was called before on the same DocumentCrawler.
CrawlReturnsOwnRecords ==
    pc = "crawled" => [k \in DOMAIN returned |-> returned[k].file_name] = Discovered

----------------------------------------------------------------------------
\* C12: the content of every record, the placeholder of a reader that
\* failed included, holds no raw newline and no tab.
ContentIsSingleLine ==
    \A k \in DOMAIN Produced :
        /\ "\n" \notin Range(Produced[k].content)
        /\ "\t" \notin Range(Produced[k].content)

----------------------------------------------------------------------------
\* Neither two spaces in a row nor a space at either end.
IsTidy(text) ==
    /\ text # <<>> => text[1] # " " /\ text[Len(text)] # " "
    /\ \A k \in 1..(Len(text) - 1) : ~(text[k] = " " /\ text[k + 1] = " ")

\* C13: clean_text is idempotent on every text, NUL characters next to white
\* space or at an end included: what it returns has no two spaces in a row
\* and no space at either end, and clean_text returns it unchanged.
CleanTextIsIdempotent ==
    pc = "clean_text" /\ Len(call) = 3 => IsTidy(call[2]) /\ call[3] = call[2]

----------------------------------------------------------------------------
\* C14: parse_pdf returns the text of the reader it tries first when that has
\* 50 characters or more; when it has fewer, the text of the second reader
\* takes its place only if it is strictly longer; the sentinel is returned
\* exactly when both texts are empty; parse_pdf always returns.
PdfTextChoice ==
    pc = "parse_pdf" /\ call.result # <<>> =>
        LET primary == parse_pdf_pdfplumber(call.read.plumber)
            secondary == parse_pdf_pypdf2(call.read.pypdf2)
            got == call.result[1]
        IN  /\ Len(primary) >= 50 => got = primary
            /\ Len(primary) < 50 /\ Len(secondary) > Len(primary) => got = secondary
            /\ Len(primary) < 50 /\ Len(secondary) <= Len(primary) /\ primary # <<>>
                  => got = primary
            /\ got = NO_PDF_TEXT <=> primary = <<>> /\ secondary = <<>>

\* The first text is 49 characters long and replaced by the second, of 50;
\* parse_pdf returned.
BackupReplacesShortText ==
    /\ pc = "parse_pdf"
    /\ call.result # <<>>
    /\ Len(parse_pdf_pdfplumber(call.read.plumber)) = 49
    /\ Len(parse_pdf_pypdf2(call.read.pypdf2)) = 50
    /\ call.result[1] = parse_pdf_pypdf2(call.read.pypdf2)
    /\ call.result[1][50] = "y"

----------------------------------------------------------------------------
\* The file of the storage root that file i is, or is enclosed in.
TopLevel(i) ==
    IF storage[i].parent = 0 THEN i
    ELSE CHOOSE a \in Ancestors(i) : storage[a].parent = 0

\* C15: the records produced while one top-level archive is processed all
\* carry the same id, one more than the number of records the session held
\* when the walk reached that archive; so the ids never decrease along the
\* sequence and the id of the record at position k is at most k.
IdIsCountAtTopLevelFile ==
    LET file == FilesOf(Produced)
    IN  \A k \in DOMAIN Produced :
            /\ Produced[k].id =
                   1 + Cardinality({j \in DOMAIN Produced : file[j] < TopLevel(file[k])})
            /\ Produced[k].id <= k
            /\ k > 1 => Produced[k - 1].id <= Produced[k].id

\* The run is over and its two records, of one top-level archive, have id 1.
ArchiveRecordsShareId ==
    /\ pc = "done"
    /\ Len(documents) = 2
    /\ \A k \in 1..2 : documents[k].id = 1 /\ documents[k].archive_path # <<>>
    /\ csv[2][1] = 1 /\ csv[3][1] = 1

----------------------------------------------------------------------------
\* C16: once crawl() has returned, run() goes on to export(), also when the
\* storage root is missing: export() then leaves the header row alone in the
\* output file, whatever the file held before, and run() returns as it does
\* on success.
RunExportsWhateverCrawlReturns ==
    /\ [](pc = "crawled" => ENABLED Export)
    /\ [][pc = "crawled" => pc' = "done" /\ exc' = "none" /\ Head(csv') = CSV_COLUMNS]_vars
    /\ [](pc = "done" /\ ~rootExists => csv = <<CSV_COLUMNS>>)

\* The run over a missing storage root is over: crawl() printed the error and
\* returned nothing, export() wrote the header row.
MissingRootExported ==
    /\ pc = "done"
    /\ ~rootExists
    /\ returned = <<>>
    /\ log = <<<<"Error: Storage path does not exist">>, <<"Exported">>>>
    /\ csv = <<CSV_COLUMNS>>

----------------------------------------------------------------------------
\* The scratch directories allocated so far.
Allocated == {TempNames[k] : k \in 1..Extractions}

\* The file_path of the record of an archive member is in a scratch
\* directory allocated so far, that of any other record under the storage
\* root.
PathsAreScratchOrStorage ==
    \A k \in DOMAIN Produced :
        IF Produced[k].archive_path = <<>>
        THEN Produced[k].file_path[1] = "storage"
        ELSE Produced[k].file_path[1] \in Allocated

====
